---- MODULE Spec2Model ----
(***************************************************************************)
(* n8n-mcp-tool: the two servers of the repository.                        *)
(*   src/index.js          the MCP SDK server ("index")                    *)
(*   src/unnamed/part_000  the stdin/stdout JSON server ("part000")        *)
(* Both wrap docker / n8n command lines in an N8nWorkflowManager and       *)
(* dispatch a named operation to one of its five methods.  A method is a   *)
(* chain of awaited child processes; the event loop may run other          *)
(* requests' continuations while a child process is running.               *)
(***************************************************************************)
EXTENDS Integers, Sequences, FiniteSets, TLC

VARIABLES impl, now, reqs, tmpFiles, rows, sepw, trailing, cliOut, parsed, pstate

vars == <<impl, now, reqs, tmpFiles, rows, sepw, trailing, cliOut, parsed, pstate>>

(* ------------------------------ bounds --------------------------------- *)
\* requests a client sends during one run
MaxReq == 2
\* first clock reading (ms of day): just before a minute boundary
ClockBase == 59998
\* how far the clock may advance during a run (ms)
MaxTicks == 2
\* longest CLI listing (lines) given to the parser
MaxLines == 2

Requests == 1..MaxReq
Clock == ClockBase..(ClockBase + MaxTicks)

(* ------------------------- program constants --------------------------- *)
\* setTimeout delays of restartContainer
IndexRestartWaitMs == 10000
Part000RestartWaitMs == 20000

Impls == {"index", "part000"}

(* ------------------------- text as characters -------------------------- *)
\* A text is a sequence of tokens.  " " and "\n" are the whitespace
\* characters; every other token stands for a run of non-whitespace
\* characters and is compared as a whole.
WS == {" ", "\n"}

\* the value of a destructured array element that is missing
Undefined == <<"<undefined>">>

RECURSIVE TrimLeft(_)
TrimLeft(s) == IF s # <<>> /\ Head(s) \in WS THEN TrimLeft(Tail(s)) ELSE s

RECURSIVE TrimRight(_)
TrimRight(s) ==
    IF s # <<>> /\ s[Len(s)] \in WS THEN TrimRight(SubSeq(s, 1, Len(s) - 1)) ELSE s

\* String.prototype.trim
Trim(s) == TrimRight(TrimLeft(s))

\* String.prototype.split('\n'): one piece more than there are separators
RECURSIVE SplitNL(_, _)
SplitNL(s, cur) ==
    IF s = <<>> THEN <<cur>>
    ELSE IF Head(s) = "\n" THEN <<cur>> \o SplitNL(Tail(s), <<>>)
    ELSE SplitNL(Tail(s), Append(cur, Head(s)))

\* length of the whitespace run s starts with
RECURSIVE WsRun(_)
WsRun(s) == IF s # <<>> /\ Head(s) \in WS THEN 1 + WsRun(Tail(s)) ELSE 0

\* String.prototype.split(/\s{2,}/): separators are the maximal runs of two
\* or more whitespace characters; a single space stays in its field
RECURSIVE SplitCols(_, _)
SplitCols(s, cur) ==
    IF s = <<>> THEN <<cur>>
    ELSE LET n == WsRun(s) IN
         IF n >= 2 THEN <<cur>> \o SplitCols(SubSeq(s, n + 1, Len(s)), <<>>)
         ELSE SplitCols(Tail(s), Append(cur, Head(s)))

\* array destructuring [id, name, active]: a missing element is undefined
At(a, i) == IF i <= Len(a) THEN a[i] ELSE Undefined

\* the arrow function of listWorkflows, one line of the listing
ParseLine(line) ==
    LET cols == SplitCols(Trim(line), <<>>) IN
    [id |-> At(cols, 1), name |-> At(cols, 2), active |-> (At(cols, 3) = <<"Active">>)]

\* result.trim().split('\n').map(...)
ParseWorkflows(stdout) ==
    LET lines == SplitNL(Trim(stdout), <<>>) IN
    [i \in 1..Len(lines) |-> ParseLine(lines[i])]

(* ------------------------------ timestamps ----------------------------- *)
DigitChars == <<"0", "1", "2", "3", "4", "5", "6", "7", "8", "9">>

\* n in decimal, left-padded with zeros to width w
RECURSIVE Pad(_, _)
Pad(n, w) == IF w = 0 THEN <<>> ELSE Append(Pad(n \div 10, w - 1), DigitChars[(n % 10) + 1])

\* n in decimal, no padding (template literal of a number)
RECURSIVE Decimal(_)
Decimal(n) == IF n < 10 THEN <<DigitChars[n + 1]>> ELSE Append(Decimal(n \div 10), DigitChars[(n % 10) + 1])

\* mutant: the timestamp stops at the seconds
ToISOString_Seconds(t) ==
    <<"1970-01-01", "T">> \o Pad(t \div 3600000, 2) \o <<":">>
        \o Pad((t \div 60000) % 60, 2) \o <<":">>
        \o Pad((t \div 1000) % 60, 2) \o <<"Z">>

\* Date.prototype.toISOString of a reading t, in ms since the start of day
\* 1970-01-01 (the readings of Clock stay within that day)
ToISOString(t) ==
    <<"1970-01-01", "T">> \o Pad(t \div 3600000, 2) \o <<":">>
        \o Pad((t \div 60000) % 60, 2) \o <<":">>
        \o Pad((t \div 1000) % 60, 2) \o <<".">>
        \o Pad(t % 1000, 3) \o <<"Z">>

\* .replace(/[:.]/g, '-')
ReplaceColonDot(s) == [i \in 1..Len(s) |-> IF s[i] \in {":", "."} THEN "-" ELSE s[i]]

\* const timestamp = new Date().toISOString().replace(/[:.]/g, '-')
Timestamp(t) == ReplaceColonDot(ToISOString(t))

\* const backupFile = `n8n-backup-${timestamp}.json`
BackupFile(t) == <<"n8n-backup-">> \o Timestamp(t) \o <<".json">>

\* const tmpFile = `/tmp/workflow-update-${Date.now()}.json`
TmpFile(t) == <<"/tmp/workflow-update-">> \o Decimal(t) \o <<".json">>

(* ------------------------- the manager's methods ----------------------- *)
\* A method is the sequence of its awaited steps.  A step is a child
\* process or a timer:
\*   cmd        the command line (its distinguishing part)
\*   wrapped    run through index.js executeCommand, which rethrows the
\*              failure as "Command failed: ..."
\*   tolerated  inside an inner try/catch that pushes a check and goes on
\*   check      the check pushed with the step's output: its name ("" none)
\*              and whether the output is trimmed first
\*   effect     what the command does to the local temp file
\*   awaited    the method awaits the step before going on
NoCheck == [name |-> "", trimmed |-> FALSE]

Check(name, trimmed) == [name |-> name, trimmed |-> trimmed]

Exec(cmd, wrapped, tolerated, check, effect) ==
    [kind |-> "exec", cmd |-> cmd, ms |-> 0, wrapped |-> wrapped,
     tolerated |-> tolerated, check |-> check, effect |-> effect, awaited |-> TRUE]

Sleep(ms) ==
    [kind |-> "sleep", cmd |-> "setTimeout", ms |-> ms, wrapped |-> FALSE,
     tolerated |-> FALSE, check |-> NoCheck, effect |-> "", awaited |-> TRUE]

\* A method record:
\*   steps      as above
\*   readsClock the method takes a clock reading before its first step
\*   returns    what the method returns on success
\*   okText     the success message
\*   failText   the prefix of the catch block's message
\*   throws     the catch block throws (index.js) or returns the text (part_000)
\*   notFound   the text pushed when a tolerated step fails

Index_listWorkflows ==
    [steps |-> <<Exec("n8n list:workflow --no-header", TRUE, FALSE, NoCheck, "")>>,
     readsClock |-> FALSE, returns |-> "workflows", okText |-> "",
     failText |-> "Failed to list workflows: ", throws |-> TRUE, notFound |-> ""]

Index_updateWorkflow ==
    [steps |-> <<Exec("echo > tmpFile", FALSE, FALSE, NoCheck, "create"),
                 Exec("docker cp tmpFile", TRUE, FALSE, NoCheck, ""),
                 Exec("n8n import:workflow", TRUE, FALSE, NoCheck, ""),
                 Exec("rm tmpFile", FALSE, FALSE, NoCheck, "remove")>>,
     readsClock |-> TRUE, returns |-> "message",
     okText |-> "Workflow updated successfully",
     failText |-> "Failed to update workflow: ", throws |-> TRUE, notFound |-> ""]

\* mutant: success is returned without waiting
Index_restartContainer_NoWait ==
    [steps |-> <<Exec("docker restart", TRUE, FALSE, NoCheck, "")>>,
     readsClock |-> FALSE, returns |-> "message",
     okText |-> "Container restarted successfully",
     failText |-> "Failed to restart container: ", throws |-> TRUE, notFound |-> ""]

Index_restartContainer ==
    [steps |-> <<Exec("docker restart", TRUE, FALSE, NoCheck, ""),
                 Sleep(IndexRestartWaitMs)>>,
     readsClock |-> FALSE, returns |-> "message",
     okText |-> "Container restarted successfully",
     failText |-> "Failed to restart container: ", throws |-> TRUE, notFound |-> ""]

Index_backupWorkflows ==
    [steps |-> <<Exec("n8n export:workflow --all", TRUE, FALSE, NoCheck, ""),
                 Exec("docker cp backupFile", TRUE, FALSE, NoCheck, "")>>,
     readsClock |-> TRUE, returns |-> "file", okText |-> "",
     failText |-> "Failed to create backup: ", throws |-> TRUE, notFound |-> ""]

\* mutant: the log fetch is wrapped in an inner try/catch too
Index_troubleshoot_LogsTolerated ==
    [steps |-> <<Exec("docker ps", TRUE, FALSE, Check("Container Status", TRUE), ""),
                 Exec("n8n list:workflow | grep", TRUE, TRUE, Check("Workflow Status", TRUE), ""),
                 Exec("docker logs", TRUE, TRUE, Check("Recent Logs", FALSE), "")>>,
     readsClock |-> FALSE, returns |-> "checks", okText |-> "",
     failText |-> "Failed to troubleshoot: ", throws |-> TRUE,
     notFound |-> "Workflow not found"]

Index_troubleshoot ==
    [steps |-> <<Exec("docker ps", TRUE, FALSE, Check("Container Status", TRUE), ""),
                 Exec("n8n list:workflow | grep", TRUE, TRUE, Check("Workflow Status", TRUE), ""),
                 Exec("docker logs", TRUE, FALSE, Check("Recent Logs", FALSE), "")>>,
     readsClock |-> FALSE, returns |-> "checks", okText |-> "",
     failText |-> "Failed to troubleshoot: ", throws |-> TRUE,
     notFound |-> "Workflow not found"]

Part000_listWorkflows ==
    [steps |-> <<Exec("n8n list:workflow", FALSE, FALSE, NoCheck, "")>>,
     readsClock |-> FALSE, returns |-> "stdout", okText |-> "",
     failText |-> "Error listing workflows: ", throws |-> FALSE, notFound |-> ""]

\* mutant: the failure of the import is swallowed
Part000_updateWorkflow_ImportSwallowed ==
    [steps |-> <<Exec("n8n export:workflow --id", FALSE, FALSE, NoCheck, ""),
                 Exec("docker cp updateFile", FALSE, FALSE, NoCheck, ""),
                 Exec("n8n import:workflow", FALSE, TRUE, NoCheck, ""),
                 Exec("n8n update:workflow --active=true", FALSE, FALSE, NoCheck, ""),
                 Exec("docker restart", FALSE, FALSE, NoCheck, "")>>,
     readsClock |-> FALSE, returns |-> "message",
     okText |-> "Workflow updated successfully",
     failText |-> "Error updating workflow: ", throws |-> FALSE, notFound |-> ""]

\* mutant: the export is started but not awaited
Part000_updateWorkflow_NotAwaited ==
    [steps |-> <<[Exec("n8n export:workflow --id", FALSE, FALSE, NoCheck, "")
                     EXCEPT !.awaited = FALSE],
                 Exec("docker cp updateFile", FALSE, FALSE, NoCheck, ""),
                 Exec("n8n import:workflow", FALSE, FALSE, NoCheck, ""),
                 Exec("n8n update:workflow --active=true", FALSE, FALSE, NoCheck, ""),
                 Exec("docker restart", FALSE, FALSE, NoCheck, "")>>,
     readsClock |-> FALSE, returns |-> "message",
     okText |-> "Workflow updated successfully",
     failText |-> "Error updating workflow: ", throws |-> FALSE, notFound |-> ""]

Part000_updateWorkflow ==
    [steps |-> <<Exec("n8n export:workflow --id", FALSE, FALSE, NoCheck, ""),
                 Exec("docker cp updateFile", FALSE, FALSE, NoCheck, ""),
                 Exec("n8n import:workflow", FALSE, FALSE, NoCheck, ""),
                 Exec("n8n update:workflow --active=true", FALSE, FALSE, NoCheck, ""),
                 Exec("docker restart", FALSE, FALSE, NoCheck, "")>>,
     readsClock |-> FALSE, returns |-> "message",
     okText |-> "Workflow updated successfully",
     failText |-> "Error updating workflow: ", throws |-> FALSE, notFound |-> ""]

Part000_restartContainer ==
    [steps |-> <<Exec("docker restart", FALSE, FALSE, NoCheck, ""),
                 Sleep(Part000RestartWaitMs)>>,
     readsClock |-> FALSE, returns |-> "message",
     okText |-> "Container restarted successfully",
     failText |-> "Error restarting container: ", throws |-> FALSE, notFound |-> ""]

Part000_backupWorkflows ==
    [steps |-> <<Exec("n8n export:workflow --all", FALSE, FALSE, NoCheck, ""),
                 Exec("docker cp backupFile", FALSE, FALSE, NoCheck, "")>>,
     readsClock |-> TRUE, returns |-> "backupText", okText |-> "Backup created: ",
     failText |-> "Error creating backup: ", throws |-> FALSE, notFound |-> ""]

Part000_troubleshoot ==
    [steps |-> <<Exec("docker ps", FALSE, FALSE, Check("Container status", TRUE), ""),
                 Exec("n8n list:workflow | grep", FALSE, FALSE, Check("Workflow status", TRUE), ""),
                 Exec("docker logs", FALSE, FALSE, Check("Recent logs", FALSE), "")>>,
     readsClock |-> FALSE, returns |-> "checksText", okText |-> "",
     failText |-> "Error during troubleshooting: ", throws |-> FALSE, notFound |-> ""]

\* the method a handler name stands for
Method(i, h) ==
    IF i = "index"
    THEN CASE h = "listWorkflows" -> Index_listWorkflows
           [] h = "updateWorkflow" -> Index_updateWorkflow
           [] h = "restartContainer" -> Index_restartContainer
           [] h = "backupWorkflows" -> Index_backupWorkflows
           [] h = "troubleshoot" -> Index_troubleshoot
    ELSE CASE h = "listWorkflows" -> Part000_listWorkflows
           [] h = "updateWorkflow" -> Part000_updateWorkflow
           [] h = "restartContainer" -> Part000_restartContainer
           [] h = "backupWorkflows" -> Part000_backupWorkflows
           [] h = "troubleshoot" -> Part000_troubleshoot

(* ------------------------------ dispatch ------------------------------- *)
\* "" is the default branch of the switch
NoHandler == ""

\* mutant: the default branch falls into the first case
Index_dispatch_Fallthrough(name) ==
    CASE name = "list_workflows" -> "listWorkflows"
      [] name = "update_workflow" -> "updateWorkflow"
      [] name = "restart_container" -> "restartContainer"
      [] name = "backup_workflows" -> "backupWorkflows"
      [] name = "troubleshoot" -> "troubleshoot"
      [] OTHER -> "listWorkflows"

\* switch (name) of the CallToolRequestSchema handler
Index_dispatch(name) ==
    CASE name = "list_workflows" -> "listWorkflows"
      [] name = "update_workflow" -> "updateWorkflow"
      [] name = "restart_container" -> "restartContainer"
      [] name = "backup_workflows" -> "backupWorkflows"
      [] name = "troubleshoot" -> "troubleshoot"
      [] OTHER -> NoHandler

\* switch (method) of MCPServer.handleRequest
Part000_handleRequest(method) ==
    CASE method = "list-workflows" -> "listWorkflows"
      [] method = "update-workflow" -> "updateWorkflow"
      [] method = "restart-container" -> "restartContainer"
      [] method = "backup-workflows" -> "backupWorkflows"
      [] method = "troubleshoot" -> "troubleshoot"
      [] OTHER -> NoHandler

Dispatch(i, name) == IF i = "index" THEN Index_dispatch(name) ELSE Part000_handleRequest(name)

\* the branches that read a property of the arguments object
\* (args.workflowId; params.id, params.file, params.workflow)
ReadsArgs(h) == h \in {"updateWorkflow", "troubleshoot"}


(* ------------------------ outcomes and responses ----------------------- *)
\* what a child process prints: a line ending in a newline
Stdout(cmd) == <<cmd, "\n">>

\* listings the list command prints in the server runs
SampleListings ==
    { <<>>,
      <<"id1", " ", " ", "WorkflowA", " ", " ", "Active", "\n">>,
      <<"id1", " ", " ", "WorkflowA", " ", " ", "Active", "\n",
        "id2", " ", " ", "WorkflowB", " ", " ", "Inactive", "\n">> }

IsListCmd(cmd) == cmd \in {"n8n list:workflow --no-header", "n8n list:workflow"}

Outputs(cmd) == IF IsListCmd(cmd) THEN SampleListings ELSE {Stdout(cmd)}

\* checks.join('\n\n') of part_000, each check `${name}: ${result}`
\* what part_000 writes between a check's name and its result:
\* `Container status: ${...}`, `Workflow status: ${...}`, `Recent logs:\n${logs}`
CheckSep(name) == IF name = "Recent logs" THEN <<":", "\n">> ELSE <<":", " ">>

RECURSIVE JoinChecks(_)
JoinChecks(cs) ==
    IF cs = <<>> THEN <<>>
    ELSE <<Head(cs).check>> \o CheckSep(Head(cs).check) \o Head(cs).result
         \o (IF Len(cs) > 1 THEN <<"\n", "\n">> \o JoinChecks(Tail(cs)) ELSE <<>>)

\* the return statement of a method
Return(m, rq) ==
    [thrown |-> FALSE,
     text |-> IF m.okText = "" THEN <<>> ELSE <<m.okText>>,
     value |-> CASE m.returns = "workflows" -> ParseWorkflows(rq.out)
                 [] m.returns = "stdout" -> rq.out
                 [] m.returns \in {"file", "backupText"} -> BackupFile(rq.ts)
                 [] m.returns = "checks" -> rq.checks
                 [] m.returns = "checksText" -> JoinChecks(rq.checks)
                 [] OTHER -> <<>>]

\* the catch block of a method, entered by the failure of step s; the
\* message of a failed child process names its command line
Catch(m, s) ==
    [thrown |-> m.throws,
     text |-> <<m.failText>> \o (IF s.wrapped THEN <<"Command failed: ">> ELSE <<>>) \o <<s.cmd>>,
     value |-> <<>>]

\* reading a property of undefined arguments
TypeErrorOutcome ==
    [thrown |-> TRUE, text |-> <<"TypeError: Cannot read properties of undefined">>,
     value |-> <<>>]

\* default branch: index.js throws, part_000 returns a string
UnknownOutcome(i, name) ==
    IF i = "index"
    THEN [thrown |-> TRUE, text |-> <<"Unknown tool: ", name>>, value |-> <<>>]
    ELSE [thrown |-> FALSE, text |-> <<"Unknown command">>, value |-> <<>>]

\* try/catch of the CallToolRequestSchema handler
Index_CallTool(o) ==
    IF o.thrown
    THEN [sent |-> TRUE, isError |-> TRUE, text |-> <<"Error: ">> \o o.text, value |-> <<>>]
    ELSE [sent |-> TRUE, isError |-> FALSE, text |-> o.text, value |-> o.value]

\* try/catch of MCPServer.start: {result: response} or {error: message}
Part000_start(o) ==
    IF o.thrown
    THEN [sent |-> TRUE, isError |-> TRUE, text |-> o.text, value |-> <<>>]
    ELSE [sent |-> TRUE, isError |-> FALSE, text |-> o.text, value |-> o.value]

Respond(i, o) == IF i = "index" THEN Index_CallTool(o) ELSE Part000_start(o)

NoResp == [sent |-> FALSE, isError |-> FALSE, text |-> <<>>, value |-> <<>>]

(* ------------------------------- state --------------------------------- *)
\* a request nobody has sent yet
IdleReq ==
    [st |-> "idle", name |-> "", args |-> FALSE, handler |-> NoHandler, pc |-> 0,
     inflight |-> {}, log |-> <<>>, out |-> <<>>, checks |-> <<>>, ts |-> 0,
     wrote |-> FALSE, exited |-> {}, resp |-> NoResp]

Ev(kind, s) == [ev |-> kind, cmd |-> s.cmd, ms |-> s.ms]

Done(i, rq, o) == [rq EXCEPT !.st = "done", !.resp = Respond(i, o)]

\* run method m of request rq from step pc up to its next await
RECURSIVE RunFrom(_, _, _, _)
RunFrom(i, m, rq, pc) ==
    IF pc > Len(m.steps) THEN Done(i, [rq EXCEPT !.pc = pc], Return(m, rq))
    ELSE LET s == m.steps[pc]
             started == [rq EXCEPT !.pc = pc, !.log = Append(@, Ev("start", s)),
                                   !.inflight = IF s.kind = "exec" THEN @ \cup {pc} ELSE @]
         IN  IF s.kind = "sleep" THEN [started EXCEPT !.st = "wait"]
             ELSE IF s.awaited THEN [started EXCEPT !.st = "exec"]
             ELSE RunFrom(i, m, started, pc + 1)

\* checks.push(...) after a step that succeeded with output out
Pushed(rq, s, out) ==
    IF s.check.name = "" THEN rq
    ELSE [rq EXCEPT !.checks = Append(@, [check |-> s.check.name,
                         result |-> IF s.check.trimmed THEN Trim(out) ELSE out])]

\* checks.push(...) of the inner catch block
PushedNotFound(m, rq, s) ==
    [rq EXCEPT !.checks = Append(@, [check |-> s.check.name, result |-> <<m.notFound>>])]

\* names a client may send: those of either server, and one of neither
Names ==
    {"list_workflows", "update_workflow", "restart_container", "backup_workflows",
     "troubleshoot", "list-workflows", "update-workflow", "restart-container",
     "backup-workflows", "bogus"}

Init ==
    /\ impl \in Impls
    /\ now = ClockBase
    /\ reqs = [r \in Requests |-> IdleReq]
    /\ tmpFiles = {}
    /\ rows = <<>> /\ sepw = 2 /\ trailing = FALSE
    /\ cliOut = <<>> /\ parsed = <<>> /\ pstate = "off"

ParseUnchanged == UNCHANGED <<rows, sepw, trailing, cliOut, parsed, pstate>>

(* ------------------------------ actions -------------------------------- *)
\* A request arrives: the request handler runs up to its first await.
Receive(r) ==
    /\ reqs[r].st = "idle"
    /\ \A q \in Requests : q < r => reqs[q].st # "idle"
    /\ \E name \in Names, args \in BOOLEAN :
         LET h == Dispatch(impl, name)
             rq == [reqs[r] EXCEPT !.name = name, !.args = args, !.handler = h]
         IN  \* arguments no branch reads are not enumerated apart
             /\ args \/ ReadsArgs(h)
             /\ IF h = NoHandler
                THEN /\ reqs' = [reqs EXCEPT ![r] = Done(impl, rq, UnknownOutcome(impl, name))]
                     /\ now' = now
                ELSE IF ReadsArgs(h) /\ ~args
                THEN /\ reqs' = [reqs EXCEPT ![r] = Done(impl, rq, TypeErrorOutcome)]
                     /\ now' = now
                ELSE LET m == Method(impl, h) IN
                     IF m.readsClock
                     THEN \E t \in now..(ClockBase + MaxTicks) :
                            /\ now' = t
                            /\ reqs' = [reqs EXCEPT ![r] =
                                           RunFrom(impl, m, [rq EXCEPT !.ts = t], 1)]
                     ELSE /\ now' = now
                          /\ reqs' = [reqs EXCEPT ![r] = RunFrom(impl, m, rq, 1)]
    /\ UNCHANGED <<impl, tmpFiles>>
    /\ ParseUnchanged

\* The shell of a command that touches the temp file runs to its exit:
\* what it does to /tmp happens here, in the child process, before the
\* event loop delivers its completion callback; other requests' turns may
\* come in between.  exited keeps the exit status for the callback.
ChildRuns(r) ==
    /\ reqs[r].st # "idle"
    /\ \E k \in reqs[r].inflight, ok \in BOOLEAN, made \in BOOLEAN :
         LET rq == reqs[r]
             s == Method(impl, rq.handler).steps[k]
         IN  /\ s.effect # ""
             /\ \A p \in rq.exited : p[1] # k
             \* The shell line `echo '<json>' > tmpFile` carries the payload
             \* unescaped: whether the redirection creates the file does not
             \* follow from the exit status (a payload with "'; false '" leaves
             \* the file and fails, one with "' #" succeeds without a file).
             /\ made => s.effect = "create"
             \* rm exits 0 only for a file that is there
             /\ (s.effect = "remove" /\ ok) => rq.ts \in tmpFiles
             /\ tmpFiles' = IF made THEN tmpFiles \cup {rq.ts}
                            ELSE IF s.effect = "remove" /\ ok THEN tmpFiles \ {rq.ts}
                            ELSE tmpFiles
             /\ reqs' = [reqs EXCEPT ![r] = [rq EXCEPT !.wrote = @ \/ made,
                                                       !.exited = @ \cup {<<k, ok>>}]]
    /\ UNCHANGED <<impl, now>>
    /\ ParseUnchanged

\* The completion callback of a child process of request r runs; if the
\* method awaits it, the method goes on to its next await, its catch block
\* or its return.
Complete(r) ==
    /\ reqs[r].st # "idle"
    /\ \E k \in reqs[r].inflight, ok \in BOOLEAN :
         LET rq == reqs[r]
             m == Method(impl, rq.handler)
             s == m.steps[k]
             ended == [rq EXCEPT !.inflight = @ \ {k},
                                 !.exited = @ \ {<<k, ok>>},
                                 !.log = Append(@, Ev(IF ok THEN "ok" ELSE "fail", s))]
             awaiting == rq.st = "exec" /\ rq.pc = k
         IN  \* a child that touches the temp file has exited, with this status
             /\ s.effect # "" => <<k, ok>> \in rq.exited
             /\ IF ~awaiting THEN reqs' = [reqs EXCEPT ![r] = ended]
                ELSE IF ok
                THEN \E out \in Outputs(s.cmd) :
                       reqs' = [reqs EXCEPT ![r] =
                          RunFrom(impl, m, Pushed([ended EXCEPT !.out = out], s, out), k + 1)]
                ELSE IF s.tolerated
                THEN reqs' = [reqs EXCEPT ![r] =
                          RunFrom(impl, m, PushedNotFound(m, ended, s), k + 1)]
                ELSE reqs' = [reqs EXCEPT ![r] = Done(impl, ended, Catch(m, s))]
    /\ UNCHANGED <<impl, now, tmpFiles>>
    /\ ParseUnchanged

\* The timer a method sleeps on fires.
TimerFire(r) ==
    /\ reqs[r].st = "wait"
    /\ LET rq == reqs[r]
           m == Method(impl, rq.handler)
           s == m.steps[rq.pc]
       IN  reqs' = [reqs EXCEPT ![r] =
              RunFrom(impl, m, [rq EXCEPT !.log = Append(@, Ev("elapsed", s))], rq.pc + 1)]
    /\ UNCHANGED <<impl, now, tmpFiles>>
    /\ ParseUnchanged

Next == \E r \in Requests : Receive(r) \/ ChildRuns(r) \/ Complete(r) \/ TimerFire(r)

Spec == Init /\ [][Next]_vars


(* ----------------------- the listing parser alone ---------------------- *)
\* The n8n CLI prints one line per workflow: id, name and status in columns
\* separated by runs of sepw >= 2 spaces; listWorkflows of index.js parses
\* what it printed.
Ids == {<<"id1">>, <<"id2">>}
WorkflowNames == {<<"WorkflowA">>, <<"My", " ", "Flow">>}
Statuses == {"Active", "Inactive"}
Rows == [id : Ids, name : WorkflowNames, status : Statuses]

Spaces(n) == [i \in 1..n |-> " "]

RenderLine(row, w) == row.id \o Spaces(w) \o row.name \o Spaces(w) \o <<row.status>>

RECURSIVE RenderLines(_, _)
RenderLines(rs, w) ==
    IF rs = <<>> THEN <<>>
    ELSE RenderLine(Head(rs), w)
         \o (IF Len(rs) > 1 THEN <<"\n">> \o RenderLines(Tail(rs), w) ELSE <<>>)

Render(rs, w, nl) == RenderLines(rs, w) \o (IF nl /\ rs # <<>> THEN <<"\n">> ELSE <<>>)

InitParse ==
    /\ impl = "index"
    /\ now = ClockBase
    /\ reqs = [r \in Requests |-> IdleReq]
    /\ tmpFiles = {}
    /\ \E n \in 0..MaxLines : rows \in [1..n -> Rows]
    /\ sepw \in {2, 3}
    /\ trailing \in BOOLEAN
    /\ cliOut = <<>> /\ parsed = <<>> /\ pstate = "input"

\* the CLI prints the listing
CliPrints ==
    /\ pstate = "input"
    /\ cliOut' = Render(rows, sepw, trailing)
    /\ pstate' = "printed"
    /\ UNCHANGED <<impl, now, reqs, tmpFiles, rows, sepw, trailing, parsed>>

\* listWorkflows of index.js turns the output into workflow summaries
ListWorkflowsParse ==
    /\ pstate = "printed"
    /\ parsed' = ParseWorkflows(cliOut)
    /\ pstate' = "parsed"
    /\ UNCHANGED <<impl, now, reqs, tmpFiles, rows, sepw, trailing, cliOut>>

NextParse == CliPrints \/ ListWorkflowsParse

SpecParse == InitParse /\ [][NextParse]_vars


(* =============================== claims ================================ *)
Sent(r) == reqs[r].st # "idle"

HasEv(rq, kind, cmd) == \E i \in 1..Len(rq.log) : rq.log[i].ev = kind /\ rq.log[i].cmd = cmd

IsStart(e) == e.ev = "start"

\* the commands and timers a request has started, in order
Started(rq) == LET ss == SelectSeq(rq.log, IsStart) IN [i \in 1..Len(ss) |-> ss[i].cmd]

IsPrefix(a, b) == Len(a) <= Len(b) /\ \A i \in 1..Len(a) : a[i] = b[i]

\* the five operation names each server defines, with the method each names
DefinedNames(i) ==
    IF i = "index"
    THEN ("list_workflows" :> "listWorkflows") @@ ("update_workflow" :> "updateWorkflow")
           @@ ("restart_container" :> "restartContainer")
           @@ ("backup_workflows" :> "backupWorkflows") @@ ("troubleshoot" :> "troubleshoot")
    ELSE ("list-workflows" :> "listWorkflows") @@ ("update-workflow" :> "updateWorkflow")
           @@ ("restart-container" :> "restartContainer")
           @@ ("backup-workflows" :> "backupWorkflows") @@ ("troubleshoot" :> "troubleshoot")

\* the commands of the method that handler h names, in program order
CommandsOf(i, h) == LET st == Method(i, h).steps IN [k \in 1..Len(st) |-> st[k].cmd]

\* C1: a request naming one of the five defined operations is routed to that
\* operation's method and to no other (every command it starts is the next
\* command of that method); a request naming anything else is answered at
\* once with the unknown-operation message and starts no command at all.
C1_Dispatch ==
    \A r \in Requests : Sent(r) =>
        LET rq == reqs[r]
            table == DefinedNames(impl)
        IN  IF rq.name \in DOMAIN table
            THEN /\ rq.handler = table[rq.name]
                 /\ IsPrefix(Started(rq), CommandsOf(impl, table[rq.name]))
            ELSE /\ rq.handler = NoHandler
                 /\ rq.log = <<>> /\ rq.inflight = {}
                 /\ rq.st = "done" /\ rq.resp.sent
                 /\ rq.resp.value = <<>>
                 /\ rq.resp.text = IF impl = "index"
                                   THEN <<"Error: ", "Unknown tool: ", rq.name>>
                                   ELSE <<"Unknown command">>
                 /\ impl = "index" => rq.resp.isError

\* an unknown name has been answered while a defined one is running its method
C1_Witness ==
    \E r, q \in Requests :
        /\ reqs[r].name = "bogus" /\ reqs[r].st = "done"
        /\ reqs[q].name = "restart_container" /\ reqs[q].handler = "restartContainer"
        /\ Started(reqs[q]) = <<"docker restart", "setTimeout">>

ImportCmd == "n8n import:workflow"
ActivateCmd == "n8n update:workflow --active=true"
RestartCmd == "docker restart"
ExportCmd == "n8n export:workflow --id"

\* the text a method's catch block reports for the failure of command cmd
FailureText(i, h, cmd, wrapped) ==
    (IF i = "index" THEN <<"Error: ">> ELSE <<>>)
        \o <<Method(i, h).failText>>
        \o (IF wrapped THEN <<"Command failed: ">> ELSE <<>>) \o <<cmd>>

\* C2: when the import command of an update fails, the update starts neither
\* the activate command nor the restart command, and the message reported to
\* the caller is the update's failure message carrying the import command's
\* failure.
C2_ImportFailureStops ==
    \A r \in Requests :
        LET rq == reqs[r] IN
        (rq.handler = "updateWorkflow" /\ HasEv(rq, "fail", ImportCmd)) =>
            /\ ~HasEv(rq, "start", ActivateCmd)
            /\ ~HasEv(rq, "start", RestartCmd)
            /\ rq.st = "done" /\ rq.resp.sent
            /\ rq.resp.text = FailureText(impl, "updateWorkflow", ImportCmd, impl = "index")
            /\ impl = "index" => rq.resp.isError

\* an update of part_000, which has activate and restart steps, whose import failed
C2_Witness ==
    \E r \in Requests :
        /\ impl = "part000" /\ reqs[r].handler = "updateWorkflow"
        /\ HasEv(reqs[r], "ok", "docker cp updateFile")
        /\ HasEv(reqs[r], "fail", ImportCmd)

PsCmd == "docker ps"
GrepCmd == "n8n list:workflow | grep"
LogsCmd == "docker logs"

\* C3: a troubleshoot whose listing search fails (the id is not in the
\* listing) while its other two commands succeed completes successfully with
\* three checks in order: container status, workflow status "not found",
\* recent logs.
C3_NotFoundTolerated ==
    \A r \in Requests :
        LET rq == reqs[r]
            cs == rq.checks
        IN  (/\ rq.handler = "troubleshoot" /\ rq.st = "done"
             /\ HasEv(rq, "fail", GrepCmd)
             /\ ~HasEv(rq, "fail", PsCmd) /\ ~HasEv(rq, "fail", LogsCmd)) =>
            /\ ~rq.resp.isError
            /\ Started(rq) = <<PsCmd, GrepCmd, LogsCmd>>
            /\ Len(cs) = 3
            /\ cs[1].check \in {"Container Status", "Container status"}
            /\ cs[1].result = <<PsCmd>>
            /\ cs[2].check \in {"Workflow Status", "Workflow status"}
            /\ cs[2].result = <<"Workflow not found">>
            /\ cs[3].check \in {"Recent Logs", "Recent logs"}
            /\ cs[3].result = Stdout(LogsCmd)
            /\ rq.resp.value = (IF impl = "index" THEN cs ELSE JoinChecks(cs))


\* a backup that returned a file name
BackedUp(rq) ==
    /\ rq.handler = "backupWorkflows" /\ rq.st = "done"
    /\ HasEv(rq, "ok", "docker cp backupFile")

\* C4 (as claimed): any two invocations of backup_workflows return different
\* file names, also when both read the same clock value.
C4_NamesAlwaysDiffer ==
    \A r, q \in Requests :
        (r # q /\ BackedUp(reqs[r]) /\ BackedUp(reqs[q])) =>
            reqs[r].resp.value # reqs[q].resp.value

\* C4 (amended): the returned file name embeds the invocation's clock
\* reading at millisecond resolution: two invocations return different names
\* exactly when their clock readings differ.
C4_NamesDifferWithReadings ==
    \A r, q \in Requests :
        (r # q /\ BackedUp(reqs[r]) /\ BackedUp(reqs[q])) =>
            /\ ~reqs[r].resp.isError /\ ~reqs[q].resp.isError
            /\ (reqs[r].resp.value = reqs[q].resp.value) <=> (reqs[r].ts = reqs[q].ts)

\* two finished backups whose readings are one millisecond apart
C4_Witness ==
    \E r, q \in Requests :
        /\ BackedUp(reqs[r]) /\ BackedUp(reqs[q])
        /\ reqs[q].ts = reqs[r].ts + 1

\* a command that is not inside an inner try/catch has failed
FatalFailure(rq) ==
    \E k \in 1..Len(Method(impl, rq.handler).steps) :
        LET s == Method(impl, rq.handler).steps[k] IN
        s.kind = "exec" /\ ~s.tolerated /\ HasEv(rq, "fail", s.cmd)

\* the operation of a finished request failed
OperationFailed(rq) ==
    \/ rq.name \notin DOMAIN DefinedNames(impl)
    \/ ReadsArgs(rq.handler) /\ ~rq.args
    \/ FatalFailure(rq)

\* C5: a response carries a result only when the operation succeeded; when
\* the operation failed (a command failed, or the operation is unknown) the
\* response carries the error and no result.
C5_ResponseShape ==
    \A r \in Requests :
        LET rq == reqs[r] IN
        rq.st = "done" =>
            /\ rq.resp.sent
            /\ rq.resp.isError <=> OperationFailed(rq)
            /\ rq.resp.isError => rq.resp.value = <<>>

InFlight(r) == reqs[r].st \in {"exec", "wait"}

\* C6 (as claimed): at most one operation is in flight at any moment.
C6_OneOperationInFlight == Cardinality({r \in Requests : InFlight(r)}) <= 1

\* C6 (amended): operations of different requests may be in flight together,
\* but within one operation each step's command (or timer) has ended before
\* the next step starts: a request has at most one child process running,
\* and in its log every start is followed directly by the end of that step.
C6_StepsSequential ==
    \A r \in Requests :
        LET rq == reqs[r] IN
        /\ Cardinality(rq.inflight) <= 1
        /\ \A i \in 1..Len(rq.log) :
              rq.log[i].ev = "start" =>
                  IF i = Len(rq.log) THEN rq.st \in {"exec", "wait"}
                  ELSE /\ rq.log[i + 1].ev \in {"ok", "fail", "elapsed"}
                       /\ rq.log[i + 1].cmd = rq.log[i].cmd

\* two operations in flight together, one of them past its first step
C6_Witness ==
    \E r, q \in Requests :
        /\ r # q /\ InFlight(r) /\ InFlight(q)
        /\ Len(Started(reqs[r])) >= 2

\* C7 (as claimed): when the container-status query or the log fetch of a
\* troubleshoot fails, the failure appears as a failed check in the returned
\* list of checks and the other checks still run.
C7_FailedCheckSurfaced ==
    \A r \in Requests :
        LET rq == reqs[r] IN
        (/\ rq.handler = "troubleshoot" /\ rq.st = "done" /\ rq.args
         /\ (HasEv(rq, "fail", PsCmd) \/ HasEv(rq, "fail", LogsCmd))) =>
            /\ Started(rq) = <<PsCmd, GrepCmd, LogsCmd>>
            /\ Len(rq.checks) = 3
            /\ ~rq.resp.isError

\* C7 (amended): when the container-status query or the log fetch of a
\* troubleshoot fails, the operation is aborted at that step: no later check
\* starts, no list of checks is returned, and the message reported is the
\* troubleshoot failure message carrying the failed command.
C7_FailedCheckAborts ==
    \A r \in Requests :
        LET rq == reqs[r] IN
        \A c \in {PsCmd, LogsCmd} :
            (rq.handler = "troubleshoot" /\ HasEv(rq, "fail", c)) =>
                /\ rq.st = "done" /\ rq.resp.sent
                /\ rq.log[Len(rq.log)] = [ev |-> "fail", cmd |-> c, ms |-> 0]
                /\ rq.resp.value = <<>>
                /\ rq.resp.text = FailureText(impl, "troubleshoot", c, impl = "index")
                /\ rq.resp.isError = (impl = "index")

\* the log fetch failed after the two earlier checks had been pushed
C7_Witness ==
    \E r \in Requests :
        /\ reqs[r].handler = "troubleshoot" /\ HasEv(reqs[r], "fail", LogsCmd)
        /\ Len(reqs[r].checks) = 2

\* position of the first event of that kind for that command, 0 if none
FirstEv(rq, kind, cmd) ==
    IF HasEv(rq, kind, cmd)
    THEN CHOOSE i \in 1..Len(rq.log) :
            /\ rq.log[i].ev = kind /\ rq.log[i].cmd = cmd
            /\ \A j \in 1..(i - 1) : ~(rq.log[j].ev = kind /\ rq.log[j].cmd = cmd)
    ELSE 0

CopyCmds == {"docker cp tmpFile", "docker cp updateFile"}

\* C8: in an update the current workflow is exported before the payload is
\* copied into the container, the copy precedes the import, the import
\* precedes activation and restart, and no import starts unless the export
\* has completed successfully.
C8_UpdateOrder ==
    \A r \in Requests :
        LET rq == reqs[r]
            export == FirstEv(rq, "ok", ExportCmd)
            import == FirstEv(rq, "start", ImportCmd)
        IN  rq.handler = "updateWorkflow" =>
            /\ \A c \in CopyCmds :
                  HasEv(rq, "start", c) => 0 < export /\ export < FirstEv(rq, "start", c)
            /\ import > 0 =>
                  /\ 0 < export /\ export < import
                  /\ \E c \in CopyCmds : 0 < FirstEv(rq, "ok", c) /\ FirstEv(rq, "ok", c) < import
            /\ \A c \in {ActivateCmd, RestartCmd} :
                  HasEv(rq, "start", c) => 0 < import /\ import < FirstEv(rq, "start", c)

RestartWaitMs(i) == IF i = "index" THEN IndexRestartWaitMs ELSE Part000RestartWaitMs

RestartOkText == <<"Container restarted successfully">>

\* C9: restart_container answers with success only after the restart command
\* has completed and the fixed wait has then elapsed in full; when the restart
\* command fails no wait is started and the failure is reported, not success.
C9_RestartWaits ==
    \A r \in Requests :
        LET rq == reqs[r]
            s == [cmd |-> RestartCmd, ms |-> 0]
            t == [cmd |-> "setTimeout", ms |-> RestartWaitMs(impl)]
        IN  rq.handler = "restartContainer" =>
            /\ (rq.resp.sent /\ rq.resp.text = RestartOkText) =>
                  /\ rq.log = <<Ev("start", s), Ev("ok", s), Ev("start", t), Ev("elapsed", t)>>
                  /\ ~rq.resp.isError
            /\ HasEv(rq, "fail", RestartCmd) =>
                  /\ ~HasEv(rq, "start", "setTimeout")
                  /\ rq.st = "done" /\ rq.resp.sent
                  /\ rq.resp.text = FailureText(impl, "restartContainer", RestartCmd, impl = "index")
                  /\ impl = "index" => rq.resp.isError
            /\ (rq.st = "done" /\ ~HasEv(rq, "fail", RestartCmd)) => rq.resp.text = RestartOkText

\* a restart has answered with success
C9_Witness ==
    \E r \in Requests :
        /\ reqs[r].handler = "restartContainer" /\ reqs[r].resp.sent
        /\ reqs[r].resp.text = RestartOkText
        /\ HasEv(reqs[r], "elapsed", "setTimeout")

\* the summaries the listing's rows stand for
ExpectedSummaries ==
    [i \in 1..Len(rows) |->
        [id |-> rows[i].id, name |-> rows[i].name, active |-> (rows[i].status = "Active")]]

\* C10: a listing of n >= 0 well-formed lines parses to exactly n summaries,
\* in line order, each with its line's id and name and active exactly when
\* the status column is "Active"; the empty listing parses to the empty
\* sequence.
C10_ParseListing == pstate = "parsed" => parsed = ExpectedSummaries


EchoCmd == "echo > tmpFile"

\* C11: once an update of index.js that wrote its payload to a local
\* temporary file has finished, whether it succeeded or failed at the copy
\* or at the import, that temporary file is gone.
C11_TmpFileRemoved ==
    \A r \in Requests :
        LET rq == reqs[r] IN
        (/\ impl = "index" /\ rq.handler = "updateWorkflow" /\ rq.st = "done"
         /\ HasEv(rq, "ok", EchoCmd) /\ rq.wrote) =>
            rq.ts \notin tmpFiles


====
